---------------------------- MODULE Spec2Model ----------------------------
(***************************************************************************)
(* Rule-based symptom classifier of raj-abhit/datasets.                    *)
(*                                                                         *)
(* Three revisions of the classifier are modelled side by side:            *)
(*   "add_doctor_column"           DoctorRecommender  (add_doctor_column.py)*)
(*   "restructure_csv"             DoctorRecommender  (restructure_csv.py) *)
(*   "restructure_symptom_dataset" SymptomDoctorMapper                     *)
(*                                         (restructure_symptom_dataset.py)*)
(* Python strings are TLA+ strings; a character is a string of length 1.   *)
(***************************************************************************)
EXTENDS Integers, Sequences, FiniteSets, TLC

VARIABLES
  impl,               \* which revision's object receives the call
  text,               \* the argument symptom_text of the call
  pc,                 \* "start" before the call, "done" once it returned
  symptoms,           \* the list extract_symptoms returned in this call
  specialist_scores,  \* the dict specialist_scores / doctor_scores, in insertion order
  result,             \* the returned specialist name
  recommender,        \* the attributes of the object the calls are made on
  calls,              \* per caller sharing the object: the locals of its call
  returned,           \* the (text, doctor) pairs the shared object returned, in order
  combos,             \* the argument combined_list of a has_combined_symptoms call
  covered,            \* what that call returned
  batch               \* one run of the driver restructure_csv: files, locals, position

vars == <<impl, text, pc, symptoms, specialist_scores, result,
          recommender, calls, returned, combos, covered, batch>>

(***************************************************************************)
(* Python string primitives                                                *)
(***************************************************************************)

\* One character of a string, 1-based.
CharAt(s, i) == SubSeq(s, i, i)

\* str.isspace() for the characters that occur in the inputs: also what \s matches.
Whitespace == {" ", "\t", "\n", "\r", "\f"}

UpperLetters == "ABCDEFGHIJKLMNOPQRSTUVWXYZ"

LowerLetters == "abcdefghijklmnopqrstuvwxyz"

\* str.lower() on one character.
lower_char(c) ==
  IF \E i \in 1..Len(UpperLetters) : CharAt(UpperLetters, i) = c
    THEN CharAt(LowerLetters, CHOOSE i \in 1..Len(UpperLetters) : CharAt(UpperLetters, i) = c)
    ELSE c

RECURSIVE str_lower(_)
\* str.lower()
str_lower(s) ==
  IF s = "" THEN "" ELSE lower_char(Head(s)) \o str_lower(Tail(s))

\* `p in s` for strings: p occurs in s as a contiguous substring.
str_in(p, s) ==
  \/ Len(p) = 0
  \/ \E i \in 1..(Len(s) - Len(p) + 1) : SubSeq(s, i, i + Len(p) - 1) = p

RECURSIVE str_replace_char(_, _, _)
\* str.replace(a, b) for single characters a and b.
str_replace_char(s, a, b) ==
  IF s = "" THEN ""
  ELSE (IF Head(s) = a THEN b ELSE Head(s)) \o str_replace_char(Tail(s), a, b)

RECURSIVE lstrip(_, _)
\* str.lstrip(chars): drop every leading character that is in chars.
lstrip(s, chars) ==
  IF s # "" /\ Head(s) \in chars THEN lstrip(Tail(s), chars) ELSE s

RECURSIVE rstrip(_, _)
\* str.rstrip(chars)
rstrip(s, chars) ==
  IF s # "" /\ CharAt(s, Len(s)) \in chars
    THEN rstrip(SubSeq(s, 1, Len(s) - 1), chars)
    ELSE s

\* str.strip(chars); str.strip() is strip(s, Whitespace).
strip(s, chars) == rstrip(lstrip(s, chars), chars)

RECURSIVE sub_runs(_, _)
\* re.sub(r'[chars]+', ' ', s): every maximal run of characters of chars becomes one space.
sub_runs(s, chars) ==
  IF s = "" THEN ""
  ELSE IF Head(s) \in chars THEN " " \o sub_runs(lstrip(s, chars), chars)
  ELSE Head(s) \o sub_runs(Tail(s), chars)

RECURSIVE str_split(_, _)
\* str.split(sep) for a single character sep: always at least one piece.
str_split(s, sep) ==
  IF ~ str_in(sep, s) THEN <<s>>
  ELSE LET i == CHOOSE k \in 1..Len(s) :
                  CharAt(s, k) = sep /\ \A j \in 1..(k - 1) : CharAt(s, j) # sep
       IN  <<SubSeq(s, 1, i - 1)>> \o str_split(SubSeq(s, i + 1, Len(s)), sep)

(***************************************************************************)
(* The rule tables, as written in the three __init__ methods                *)
(***************************************************************************)

AddDoctorColumnRules ==
  <<
    [ name |-> "Cardiologist",
      symptoms |->
        << "chest_pain", "chest pain", "breathlessness", "palpitations",
           "irregular_heartbeat", "irregular heartbeat", "fast_heart_rate",
           "fast heart rate" >>,
      priority |-> 1,
      combined_symptoms |->
        << <<"chest_pain", "breathlessness">>, <<"chest_pain", "sweating">>,
           <<"chest pain", "breathlessness">>, <<"chest pain", "sweating">>,
           <<"breathlessness", "sweating", "chest">> >>,
      required_combined |-> TRUE ],
    [ name |-> "Neurologist",
      symptoms |->
        << "headache", "altered_sensorium", "loss_of_balance", "spinning_movements",
           "dizziness", "seizures", "weakness_of_one_body_side", "unsteadiness",
           "slurred_speech", "coma", "altered sensorium", "loss of balance" >>,
      priority |-> 2,
      combined_symptoms |->
        << <<"headache", "altered_sensorium">>, <<"weakness", "altered_sensorium">>,
           <<"spinning_movements", "loss_of_balance">> >>,
      required_combined |-> FALSE ],
    [ name |-> "Pulmonologist",
      symptoms |->
        << "cough", "mucoid_sputum", "rusty_sputum", "blood_in_sputum", "phlegm",
           "mucoid sputum", "rusty sputum", "blood in sputum", "mucus", "respiratory" >>,
      priority |-> 2,
      combined_symptoms |->
        << <<"blood_in_sputum", "cough">>, <<"rusty_sputum", "cough">>,
           <<"phlegm", "cough">>, <<"breathlessness", "cough">>,
           <<"high_fever", "cough">> >>,
      required_combined |-> FALSE ],
    [ name |-> "Gastroenterologist",
      symptoms |->
        << "vomiting", "diarrhea", "diarrhoea", "constipation", "abdominal_pain",
           "stomach_pain", "acidity", "indigestion", "bloody_stool",
           "loss_of_appetite", "nausea", "yellowing_of_eyes", "yellowish_skin",
           "dark_urine", "swelling_of_stomach", "distention_of_abdomen",
           "fluid_overload", "abdominal pain", "stomach pain", "bloody stool",
           "loss of appetite", "yellowing of eyes", "yellowish skin", "dark urine",
           "dehydration", "sunken_eyes", "history_of_alcohol_consumption",
           "acute_liver_failure", "stomach_bleeding", "pain_during_bowel_movements",
           "pain_in_anal_region", "irritation_in_anus", "ulcers_on_tongue" >>,
      priority |-> 4,
      combined_symptoms |->
        << <<"vomiting", "diarrhea">>, <<"vomiting", "diarrhoea">>,
           <<"abdominal_pain", "vomiting">>, <<"stomach_pain", "acidity">>,
           <<"stomach_pain", "vomiting">>, <<"acidity", "chest_pain">> >>,
      required_combined |-> FALSE ],
    [ name |-> "Dermatologist",
      symptoms |->
        << "skin_rash", "itching", "skin_discoloration", "pus_filled_pimples",
           "blackheads", "skin_peeling", "nodal_skin_eruptions", "dischromic__patches",
           "blister", "red_sore_around_nose", "yellow_crust_ooze", "scurring",
           "red_spots_over_body", "skin rash", "pus filled pimples", "skin peeling" >>,
      priority |-> 7,
      combined_symptoms |->
        <<  >>,
      required_combined |-> FALSE ],
    [ name |-> "ENT",
      symptoms |->
        << "continuous_sneezing", "watering_from_eyes", "throat_irritation",
           "sinus_pressure", "runny_nose", "congestion", "loss_of_smell",
           "patches_in_throat", "shivering", "continuous sneezing",
           "watering from eyes", "throat irritation", "sinus pressure", "runny nose",
           "loss of smell", "patches in throat" >>,
      priority |-> 8,
      combined_symptoms |->
        << <<"continuous_sneezing", "watering_from_eyes">> >>,
      required_combined |-> FALSE ],
    [ name |-> "Orthopedic",
      symptoms |->
        << "joint_pain", "neck_pain", "knee_pain", "hip_pain", "stiff_neck",
           "muscle_weakness", "swelling_joints", "back_pain", "painful_walking",
           "muscle_wasting", "movement_stiffness", "joint pain", "neck pain",
           "knee pain", "hip pain", "stiff neck", "muscle weakness", "swelling joints",
           "back pain", "painful walking", "pain behind the eyes" >>,
      priority |-> 9,
      combined_symptoms |->
        <<  >>,
      required_combined |-> FALSE ],
    [ name |-> "Endocrinologist",
      symptoms |->
        << "excessive_hunger", "polyuria", "increased_appetite",
           "irregular_sugar_level", "weight_gain", "cold_hands", "enlarged_thyroid",
           "obesity", "restlessness", "lethargy", "excessive hunger",
           "increased appetite", "irregular sugar level", "weight gain", "cold hands",
           "enlarged thyroid", "diabetes", "thyroid" >>,
      priority |-> 6,
      combined_symptoms |->
        << <<"excessive_hunger", "polyuria">>,
           <<"excessive_hunger", "increased_appetite">>,
           <<"irregular_sugar_level", "polyuria">> >>,
      required_combined |-> FALSE ],
    [ name |-> "Urologist",
      symptoms |->
        << "burning_micturition", "bladder_discomfort", "foul_smell_of_urine",
           "continuous_feel_of_urine", "burning micturition", "bladder discomfort",
           "foul smell of urine", "continuous feel of urine", "urine", "urinary",
           "kidney", "ureteral" >>,
      priority |-> 5,
      combined_symptoms |->
        << <<"burning_micturition", "bladder_discomfort">> >>,
      required_combined |-> FALSE ],
    [ name |-> "Gynecologist",
      symptoms |->
        << "abnormal_menstruation", "abnormal menstruation" >>,
      priority |-> 10,
      combined_symptoms |->
        <<  >>,
      required_combined |-> FALSE ],
    [ name |-> "Psychiatrist",
      symptoms |->
        << "anxiety", "depression", "irritability" >>,
      priority |-> 11,
      combined_symptoms |->
        <<  >>,
      required_combined |-> FALSE ],
    [ name |-> "General Physician",
      symptoms |->
        << "fever", "fatigue", "malaise", "weight_loss", "high_fever", "mild_fever",
           "chills", "weight loss", "high fever", "mild fever", "swelled_lymph_nodes",
           "muscle_pain", "weakness", "blurred_and_distorted_vision",
           "drying_and_tingling_lips", "extra_marital_contacts", "mood_swings" >>,
      priority |-> 12,
      combined_symptoms |->
        <<  >>,
      required_combined |-> FALSE ]
  >>

RestructureCsvRules ==
  <<
    [ name |-> "Cardiologist",
      symptoms |->
        << "chest_pain", "chest pain", "breathlessness", "palpitations",
           "irregular_heartbeat", "irregular heartbeat", "fast_heart_rate",
           "fast heart rate", "sweating" >>,
      priority |-> 1,
      combined_symptoms |->
        << <<"chest_pain", "breathlessness">>, <<"chest_pain", "sweating">>,
           <<"chest pain", "breathlessness">>, <<"chest pain", "sweating">>,
           <<"breathlessness", "sweating", "chest">>,
           <<"vomiting", "breathlessness", "sweating", "chest_pain">> >>,
      required_combined |-> TRUE ],
    [ name |-> "Neurologist",
      symptoms |->
        << "headache", "altered_sensorium", "loss_of_balance", "spinning_movements",
           "dizziness", "seizures", "weakness_of_one_body_side", "unsteadiness",
           "slurred_speech", "coma", "altered sensorium", "loss of balance",
           "weakness of one body side", "memory", "memory_loss", "alzheimer",
           "dementia", "tremors", "visual_disturbances" >>,
      priority |-> 2,
      combined_symptoms |->
        << <<"headache", "altered_sensorium">>, <<"weakness", "altered_sensorium">>,
           <<"weakness_of_one_body_side">>,
           <<"spinning_movements", "loss_of_balance">>,
           <<"vomiting", "headache", "altered_sensorium">>,
           <<"vomiting", "headache", "weakness_of_one_body_side">> >>,
      required_combined |-> FALSE ],
    [ name |-> "Pulmonologist",
      symptoms |->
        << "cough", "mucoid_sputum", "rusty_sputum", "blood_in_sputum", "phlegm",
           "mucoid sputum", "rusty sputum", "blood in sputum", "mucus", "respiratory",
           "breathlessness with cough" >>,
      priority |-> 2,
      combined_symptoms |->
        << <<"blood_in_sputum", "cough">>, <<"rusty_sputum", "cough">>,
           <<"phlegm", "cough">>, <<"breathlessness", "cough">>,
           <<"high_fever", "cough", "phlegm">>, <<"cough", "chest_pain", "phlegm">>,
           <<"family_history", "cough">>, <<"mucoid_sputum", "cough">> >>,
      required_combined |-> FALSE ],
    [ name |-> "Gastroenterologist",
      symptoms |->
        << "vomiting", "diarrhea", "diarrhoea", "constipation", "abdominal_pain",
           "stomach_pain", "acidity", "indigestion", "bloody_stool",
           "loss_of_appetite", "nausea", "yellowing_of_eyes", "yellowish_skin",
           "dark_urine", "swelling_of_stomach", "distention_of_abdomen",
           "fluid_overload", "abdominal pain", "stomach pain", "bloody stool",
           "loss of appetite", "yellowing of eyes", "yellowish skin", "dark urine",
           "dehydration", "sunken_eyes", "history_of_alcohol_consumption",
           "acute_liver_failure", "stomach_bleeding", "pain_during_bowel_movements",
           "pain_in_anal_region", "irritation_in_anus", "ulcers_on_tongue",
           "internal_itching", "passage_of_gases", "gastritis", "gnawing",
           "belly_pain", "toxic_look_(typhos)" >>,
      priority |-> 4,
      combined_symptoms |->
        << <<"vomiting", "diarrhea">>, <<"vomiting", "diarrhoea">>,
           <<"abdominal_pain", "vomiting">>, <<"stomach_pain", "acidity">>,
           <<"stomach_pain", "vomiting">>, <<"yellowish_skin", "abdominal_pain">>,
           <<"yellowish_skin", "yellowing_of_eyes">>,
           <<"constipation", "pain_during_bowel_movements">> >>,
      required_combined |-> FALSE ],
    [ name |-> "Dermatologist",
      symptoms |->
        << "skin_rash", "itching", "skin_discoloration", "pus_filled_pimples",
           "blackheads", "skin_peeling", "nodal_skin_eruptions", "dischromic__patches",
           "blister", "red_sore_around_nose", "yellow_crust_ooze", "scurring",
           "red_spots_over_body", "skin rash", "pus filled pimples", "skin peeling",
           "small_dents_in_nails", "inflammatory_nails", "mosquito", "bites", "hive" >>,
      priority |-> 7,
      combined_symptoms |->
        << <<"skin_rash", "joint_pain">> >>,
      required_combined |-> FALSE ],
    [ name |-> "ENT",
      symptoms |->
        << "continuous_sneezing", "watering_from_eyes", "throat_irritation",
           "sinus_pressure", "runny_nose", "congestion", "loss_of_smell",
           "patches_in_throat", "shivering", "continuous sneezing",
           "watering from eyes", "throat irritation", "sinus pressure", "runny nose",
           "loss of smell", "patches in throat", "chills with sneezing" >>,
      priority |-> 8,
      combined_symptoms |->
        << <<"continuous_sneezing", "watering_from_eyes">>,
           <<"continuous_sneezing", "chills">> >>,
      required_combined |-> FALSE ],
    [ name |-> "Orthopedic",
      symptoms |->
        << "joint_pain", "neck_pain", "knee_pain", "hip_pain", "stiff_neck",
           "muscle_weakness", "swelling_joints", "back_pain", "painful_walking",
           "muscle_wasting", "movement_stiffness", "joint pain", "neck pain",
           "knee pain", "hip pain", "stiff neck", "muscle weakness", "swelling joints",
           "back pain", "painful walking" >>,
      priority |-> 9,
      combined_symptoms |->
        << <<"joint_pain", "stiff_neck">>, <<"muscle_wasting">> >>,
      required_combined |-> FALSE ],
    [ name |-> "Endocrinologist",
      symptoms |->
        << "excessive_hunger", "polyuria", "increased_appetite",
           "irregular_sugar_level", "weight_gain", "cold_hands", "enlarged_thyroid",
           "obesity", "restlessness", "lethargy", "excessive hunger",
           "increased appetite", "irregular sugar level", "weight gain", "cold hands",
           "enlarged thyroid", "diabetes", "thyroid", "fast_heart_rate",
           "irritability", "abnormal_menstruation", "swollen", "brittle", "varicose" >>,
      priority |-> 3,
      combined_symptoms |->
        << <<"excessive_hunger", "polyuria">>,
           <<"excessive_hunger", "increased_appetite">>,
           <<"irregular_sugar_level", "polyuria">>,
           <<"fast_heart_rate", "excessive_hunger", "restlessness">>,
           <<"fast_heart_rate", "excessive_hunger", "irritability">>,
           <<"restlessness", "sweating", "diarrhoea", "fast_heart_rate">>,
           <<"weight_loss", "fast_heart_rate", "excessive_hunger">> >>,
      required_combined |-> FALSE ],
    [ name |-> "Urologist",
      symptoms |->
        << "burning_micturition", "bladder_discomfort", "foul_smell_of_urine",
           "continuous_feel_of_urine", "burning micturition", "bladder discomfort",
           "foul smell of urine", "continuous feel of urine", "urine", "urinary",
           "kidney", "spotting__urination" >>,
      priority |-> 5,
      combined_symptoms |->
        << <<"burning_micturition", "bladder_discomfort">>,
           <<"spotting__urination", "burning_micturition">> >>,
      required_combined |-> FALSE ],
    [ name |-> "Psychiatrist",
      symptoms |->
        << "anxiety", "depression", "mood_swings", "loss of interest",
           "social withdrawal", "delusions" >>,
      priority |-> 11,
      combined_symptoms |->
        <<  >>,
      required_combined |-> FALSE ],
    [ name |-> "General Physician",
      symptoms |->
        << "fever", "fatigue", "malaise", "weight_loss", "high_fever", "mild_fever",
           "chills", "weight loss", "high fever", "mild fever", "swelled_lymph_nodes",
           "muscle_pain", "weakness", "blurred_and_distorted_vision",
           "drying_and_tingling_lips", "extra_marital_contacts",
           "pain_behind_the_eyes", "varicose veins", "swollen legs", "protruding" >>,
      priority |-> 12,
      combined_symptoms |->
        <<  >>,
      required_combined |-> FALSE ]
  >>

DoctorRules ==
  <<
    [ name |-> "Gastroenterologist",
      keywords |->
        << "vomiting", "abdominal_pain", "diarrhoea", "diarrhea", "constipation",
           "yellowish_skin", "nausea", "loss_of_appetite", "yellowing_of_eyes",
           "stomach_pain", "indigestion", "acidity", "ulcers", "bloody_stool",
           "internal_itching", "passage_of_gases", "fluid_overload",
           "distention_of_abdomen", "swelling_of_stomach", "toxic_look", "belly_pain",
           "dark_urine", "dehydration", "sunken_eyes",
           "history_of_alcohol_consumption", "acute_liver_failure", "stomach_bleeding",
           "pain_during_bowel_movements", "pain_in_anal_region", "irritation_in_anus",
           "liver", "digestive", "bowel", "burning_micturition", "bladder_discomfort",
           "foul_smell_of_urine", "continuous_feel_of_urine", "urinary", "urine" >>,
      priority |-> 3,
      combined_required |->
        <<  >> ],
    [ name |-> "Cardiologist",
      keywords |->
        << "chest_pain", "palpitations", "fast_heart_rate", "heart" >>,
      priority |-> 1,
      combined_required |->
        << <<"chest_pain", "breathlessness">>, <<"chest_pain", "sweating">>,
           <<"sweating", "chest_pain">> >> ],
    [ name |-> "Neurologist",
      keywords |->
        << "headache", "altered_sensorium", "weakness_of_one_body_side",
           "spinning_movements", "loss_of_balance", "unsteadiness", "dizziness",
           "lack_of_concentration", "visual_disturbances",
           "blurred_and_distorted_vision", "slurred_speech", "coma", "seizures",
           "alzheimer", "memory", "brain" >>,
      priority |-> 2,
      combined_required |->
        <<  >> ],
    [ name |-> "Dermatologist",
      keywords |->
        << "skin_rash", "itching", "pus_filled_pimples", "blackheads", "scurring",
           "blister", "red_sore_around_nose", "yellow_crust_ooze", "skin_peeling",
           "dischromic__patches", "nodal_skin_eruptions", "silver_like_dusting",
           "inflammatory_nails", "small_dents_in_nails", "red_spots_over_body", "skin",
           "rash", "mosquito", "bites", "hive" >>,
      priority |-> 5,
      combined_required |->
        <<  >> ],
    [ name |-> "Pulmonologist",
      keywords |->
        << "cough", "breathlessness", "phlegm", "blood_in_sputum", "mucoid_sputum",
           "rusty_sputum", "malaise", "family_history", "respiratory", "lung", "mucus",
           "wheezing" >>,
      priority |-> 2,
      combined_required |->
        <<  >> ],
    [ name |-> "Orthopedic",
      keywords |->
        << "joint_pain", "neck_pain", "knee_pain", "hip_joint_pain", "swelling_joints",
           "painful_walking", "stiff_neck", "movement_stiffness", "muscle_weakness",
           "back_pain", "weakness_in_limbs", "muscle_wasting", "hip_pain" >>,
      priority |-> 6,
      combined_required |->
        <<  >> ],
    [ name |-> "ENT",
      keywords |->
        << "continuous_sneezing", "watering_from_eyes", "throat_irritation",
           "sinus_pressure", "runny_nose", "congestion", "loss_of_smell",
           "patches_in_throat", "redness_of_eyes", "muscle_wasting",
           "extra_marital_contacts", "throat", "sinus" >>,
      priority |-> 7,
      combined_required |->
        <<  >> ],
    [ name |-> "General Physician",
      keywords |->
        << "fatigue", "fever", "high_fever", "mild_fever", "chills", "weight_loss",
           "restlessness", "lethargy", "malaise", "swelled_lymph_nodes", "muscle_pain",
           "weakness", "obesity", "polyuria", "excessive_hunger", "increased_appetite",
           "irregular_sugar_level", "cold_hands", "enlarged_thyroid", "diabetes",
           "thyroid", "varicose", "veins", "swollen", "shivering", "sweating",
           "mood_swings", "depression", "irritability", "anxiety", "legs",
           "protruding", "calf" >>,
      priority |-> 10,
      combined_required |->
        <<  >> ],
    [ name |-> "Gynecologist",
      keywords |->
        << "abnormal_menstruation", "irregular_periods", "menstruation", "pelvic_pain",
           "vaginal" >>,
      priority |-> 4,
      combined_required |->
        <<  >> ],
    [ name |-> "Ophthalmologist",
      keywords |->
        << "eye_redness", "eye_pain", "vision_problems", "blurred_vision",
           "visual_disturbances" >>,
      priority |-> 8,
      combined_required |->
        <<  >> ],
    [ name |-> "Dentist",
      keywords |->
        << "ulcers_on_tongue", "tooth_pain", "gum", "mouth_ulcers", "dental" >>,
      priority |-> 9,
      combined_required |->
        <<  >> ],
    [ name |-> "Psychiatrist",
      keywords |->
        << "severe_depression", "severe_anxiety", "mood_swings", "mental",
           "psychological" >>,
      priority |-> 11,
      combined_required |->
        <<  >> ]
  >>

(***************************************************************************)
(* DoctorRecommender (add_doctor_column.py, restructure_csv.py)            *)
(***************************************************************************)

Recommenders == {"add_doctor_column", "restructure_csv"}

\* self.specialist_rules of the DoctorRecommender of revision rev.
specialist_rules(rev) ==
  IF rev = "add_doctor_column" THEN AddDoctorColumnRules ELSE RestructureCsvRules

\* The keys of self.specialist_rules.
SpecialistNames(rev) ==
  {specialist_rules(rev)[i].name : i \in 1..Len(specialist_rules(rev))}

\* Faulty variant of FallbackDoctor: a literal that names no configured specialist.
MisspelledFallback == "General Practitioner"

\* The literal the matcher returns when nothing matches.
FallbackDoctor == "General Physician"

\* Faulty variant of normalize_steps: runs of whitespace are not collapsed.
normalize_without_collapse(t) ==
  strip(sub_runs(str_lower(t), {"_"}), Whitespace)

\* The body of normalize_text: lowercase, runs of '_' to one space, runs of
\* whitespace to one space, strip.
normalize_steps(t) ==
  strip(sub_runs(sub_runs(str_lower(t), {"_"}), Whitespace), Whitespace)

\* The strings of a sequence.
members(list) == {list[k] : k \in 1..Len(list)}

\* Every string of a DoctorRecommender table that the code passes to normalize_text:
\* the keywords and the members of the combinations.
words_of(rules) ==
  UNION { members(rules[i].symptoms)
            \cup UNION { members(rules[i].combined_symptoms[c])
                           : c \in 1..Len(rules[i].combined_symptoms) }
          : i \in 1..Len(rules) }

\* The same for the SymptomDoctorMapper table.
mapper_words_of(rules) ==
  UNION { members(rules[i].keywords)
            \cup UNION { members(rules[i].combined_required[c])
                           : c \in 1..Len(rules[i].combined_required) }
          : i \in 1..Len(rules) }

\* normalize_text is pure and the tables are fixed, so what the code recomputes for
\* the table's strings on every call is computed once, by the same steps.
NormalizedTableWord ==
  [w \in words_of(AddDoctorColumnRules) \cup words_of(RestructureCsvRules)
           \cup mapper_words_of(DoctorRules) |-> normalize_steps(w)]

\* normalize_text
normalize_text(t) ==
  IF t \in DOMAIN NormalizedTableWord THEN NormalizedTableWord[t] ELSE normalize_steps(t)

RECURSIVE all_symptoms(_, _)
\* The order in which the nested loops of extract_symptoms visit the keywords:
\* specialists in table order, each one's 'symptoms' list in list order.
all_symptoms(rules, i) ==
  IF i > Len(rules) THEN <<>> ELSE rules[i].symptoms \o all_symptoms(rules, i + 1)

\* Faulty variant of is_comma_separated: the punctuation test is not negated.
is_comma_separated_inverted(t) ==
  str_in(",", t) /\ \E ch \in {".", "!", "?"} : str_in(ch, t)

\* The test of the comma-separated branch: a comma and none of . ! ?
is_comma_separated(t) ==
  str_in(",", t) /\ ~ \E ch \in {".", "!", "?"} : str_in(ch, t)

\* The comma-separated branch: [s.strip() for s in text.split(',')]
split_symptoms(t) ==
  LET pieces == str_split(t, ",")
  IN  [i \in 1..Len(pieces) |-> strip(pieces[i], Whitespace)]

\* Faulty variant of keyword_in_text: containment is tested in either direction.
keyword_in_text_either(symptom, text_lower) ==
  \/ str_in(str_replace_char(symptom, "_", " "), text_lower)
  \/ str_in(text_lower, str_replace_char(symptom, "_", " "))

\* The natural-language branch: the keyword with '_' replaced by ' ' is looked up
\* in text.lower(), which keeps its underscores and its runs of spaces.
keyword_in_text(symptom, text_lower) ==
  str_in(str_replace_char(symptom, "_", " "), text_lower)

\* DoctorRecommender.extract_symptoms on an object whose self.specialist_rules is
\* rules.
extract_symptoms_on(rules, symptom_text) ==
  LET t == strip(symptom_text, {"\"", "'"})
  IN  IF is_comma_separated(t)
        THEN split_symptoms(t)
        ELSE LET text_lower == str_lower(t)
             IN  SelectSeq(all_symptoms(rules, 1),
                           LAMBDA symptom : keyword_in_text(symptom, text_lower))

\* DoctorRecommender.extract_symptoms on a freshly constructed object.
extract_symptoms(rev, symptom_text) ==
  extract_symptoms_on(specialist_rules(rev), symptom_text)

\* Faulty variant of either_contains: containment is tested in one direction only.
contains_one_way(x, y) == str_in(x, y)

\* nc in ns or ns in nc
either_contains(x, y) == str_in(x, y) \/ str_in(y, x)

\* Faulty variant of has_combined_symptoms: one keyword of a combination suffices
\* (any in place of all).
has_part_of_combination(syms, combined_list) ==
  \E c \in 1..Len(combined_list) :
    \E k \in 1..Len(combined_list[c]) :
      \E j \in 1..Len(syms) :
        either_contains(normalize_text(combined_list[c][k]), normalize_text(syms[j]))

\* Faulty variant of has_combined_symptoms: the keywords of a combination are compared
\* with the symptoms position by position (zip in place of any).
has_combination_in_order(syms, combined_list) ==
  \E c \in 1..Len(combined_list) :
    \A k \in 1..Len(combined_list[c]) :
      /\ k <= Len(syms)
      /\ either_contains(normalize_text(combined_list[c][k]), normalize_text(syms[k]))

\* Faulty variant of has_combined_symptoms: the symptoms must also all belong to the
\* combination.
has_exact_combination(syms, combined_list) ==
  \E c \in 1..Len(combined_list) :
    /\ \A k \in 1..Len(combined_list[c]) :
         \E j \in 1..Len(syms) :
           either_contains(normalize_text(combined_list[c][k]), normalize_text(syms[j]))
    /\ \A j \in 1..Len(syms) :
         \E k \in 1..Len(combined_list[c]) :
           either_contains(normalize_text(combined_list[c][k]), normalize_text(syms[j]))

\* DoctorRecommender.has_combined_symptoms
has_combined_symptoms(syms, combined_list) ==
  LET normalized_symptoms == [i \in 1..Len(syms) |-> normalize_text(syms[i])]
  IN  \E c \in 1..Len(combined_list) :
        \A k \in 1..Len(combined_list[c]) :
          \E j \in 1..Len(normalized_symptoms) :
            either_contains(normalize_text(combined_list[c][k]), normalized_symptoms[j])

\* The extra weight of a matched keyword ("special high-priority symptoms").
symptom_boost(rev, normalized_pattern) ==
  (IF str_in("blood in sputum", normalized_pattern)
      \/ str_in("rusty sputum", normalized_pattern) THEN 150 ELSE 0)
  + (IF rev = "restructure_csv" /\ str_in("weakness of one body side", normalized_pattern)
       THEN 150 ELSE 0)
  + (IF rev = "restructure_csv" /\ str_in("altered sensorium", normalized_pattern)
       THEN 100 ELSE 0)

RECURSIVE sum_boost(_, _, _)
\* The boosts the inner loop adds for the matched keyword entries.
sum_boost(rev, matched, i) ==
  IF i > Len(matched) THEN 0
  ELSE symptom_boost(rev, normalize_text(matched[i])) + sum_boost(rev, matched, i + 1)

\* Faulty variant of priority_weight: the priority is left out.
priority_weight_flat(priority) == 1000

\* Faulty variant of priority_weight: the priority is added instead of subtracted.
priority_weight_rising(priority) == 1000 + (priority * 50)

\* Faulty variant of priority_weight: a priority step weighs 100 instead of 50.
priority_weight_steep(priority) == 1000 - (priority * 100)

\* priority_weight = 1000 - (rules['priority'] * 50)
priority_weight(priority) == 1000 - (priority * 50)

\* Faulty variant of skips_specialist: the `continue` is missing.
never_skips(rules, has_combined) == FALSE

\* `if rules.get('required_combined', False) and not has_combined: continue`
skips_specialist(rules, has_combined) == rules.required_combined /\ ~ has_combined

\* One iteration of the scoring loop of match_symptoms_to_specialist: the locals of
\* the iteration. recorded is whether the iteration stores an entry in
\* specialist_scores.
score_specialist(rev, rules, syms) ==
  LET normalized_symptoms == [i \in 1..Len(syms) |-> normalize_text(syms[i])]
      has_combined == has_combined_symptoms(syms, rules.combined_symptoms)
      skipped == skips_specialist(rules, has_combined)
      matched ==
        SelectSeq(rules.symptoms,
                  LAMBDA symptom_pattern :
                    \E j \in 1..Len(normalized_symptoms) :
                      either_contains(normalize_text(symptom_pattern),
                                      normalized_symptoms[j]))
      boost == sum_boost(rev, matched, 1)
      score == (IF has_combined THEN 100 ELSE 0) + 10 * Len(matched) + boost
      match_count == (IF has_combined THEN 2 ELSE 0) + Len(matched)
  IN  [ name            |-> rules.name,
        priority        |-> rules.priority,
        has_combined    |-> has_combined,
        keyword_matches |-> Len(matched),
        boost           |-> boost,
        match_count     |-> match_count,
        final_score     |-> score + priority_weight(rules.priority),
        recorded        |-> ~ skipped /\ match_count > 0 ]

\* Faulty variant of key_less: the key is (match_count, final_score).
key_less_count_first(x, y) ==
  \/ x.match_count < y.match_count
  \/ x.match_count = y.match_count /\ x.final_score < y.final_score

\* The key of max(): (final_score, match_count), compared as Python compares tuples.
key_less(x, y) ==
  \/ x.final_score < y.final_score
  \/ x.final_score = y.final_score /\ x.match_count < y.match_count

RECURSIVE max_from(_, _, _)
\* Python's max(iterable, key=...): the first of the greatest items in iteration
\* order; a later item replaces the current one only when its key is greater.
max_from(items, i, best) ==
  IF i > Len(items) THEN best
  ELSE max_from(items, i + 1, IF key_less(best, items[i]) THEN items[i] ELSE best)

RECURSIVE max_from_last(_, _, _)
\* A maximum search that lets a later item with an equal key replace the current one.
max_from_last(items, i, best) ==
  IF i > Len(items) THEN best
  ELSE max_from_last(items, i + 1, IF key_less(items[i], best) THEN best ELSE items[i])

\* Faulty variant of best_specialist: the last of the greatest items wins.
best_specialist_last(scores) == max_from_last(scores, 2, scores[1])

\* max(specialist_scores.items(), key=lambda x: (x[1][0], x[1][1]))
best_specialist(scores) == max_from(scores, 2, scores[1])

\* The dict specialist_scores after the scoring loop over self.specialist_rules =
\* rules, in insertion order.
score_all_on(rules, rev, syms) ==
  SelectSeq([i \in 1..Len(rules) |-> score_specialist(rev, rules[i], syms)],
            LAMBDA r : r.recorded)

\* The same on a freshly constructed object.
score_all(rev, syms) == score_all_on(specialist_rules(rev), rev, syms)

\* `if not specialist_scores: return 'General Physician'`, else the key of the max.
doctor_of(scores) ==
  IF scores # <<>> THEN best_specialist(scores).name ELSE FallbackDoctor

\* DoctorRecommender.match_symptoms_to_specialist on an object whose
\* self.specialist_rules is rules: the dict it built and the name it returns.
match_symptoms_to_specialist_on(rules, rev, syms) ==
  IF syms = <<>>
    THEN [scores |-> <<>>, doctor |-> FallbackDoctor]
    ELSE [scores |-> score_all_on(rules, rev, syms),
          doctor |-> doctor_of(score_all_on(rules, rev, syms))]

\* DoctorRecommender.match_symptoms_to_specialist: the dict it built and the name it
\* returns.
match_symptoms_to_specialist(rev, syms) ==
  IF syms = <<>>
    THEN [scores |-> <<>>, doctor |-> FallbackDoctor]
    ELSE LET scores == score_all(rev, syms)
         IN  [ scores |-> scores,
               doctor |-> IF scores # <<>> THEN best_specialist(scores).name
                          ELSE FallbackDoctor ]

\* DoctorRecommender.recommend_doctor
recommend_doctor(rev, symptom_text) ==
  match_symptoms_to_specialist(rev, extract_symptoms(rev, symptom_text)).doctor

(***************************************************************************)
(* SymptomDoctorMapper (restructure_symptom_dataset.py)                    *)
(***************************************************************************)

ALLOWED_DOCTORS ==
  { "General Physician", "Gynecologist", "Orthopedic", "ENT", "Ophthalmologist",
    "Dentist", "Neurologist", "Cardiologist", "Gastroenterologist", "Pulmonologist",
    "Dermatologist", "Psychiatrist" }

\* SymptomDoctorMapper.extract_symptoms: the pieces of a comma-separated text, else
\* the whole text as one element.
mapper_extract_symptoms(symptom_text) ==
  LET t == strip(symptom_text, {"\"", "'"})
  IN  IF is_comma_separated(t) THEN split_symptoms(t) ELSE <<t>>

\* SymptomDoctorMapper.check_combined_symptoms
check_combined_symptoms(text_lower, combined_patterns) ==
  \E p \in 1..Len(combined_patterns) :
    \A k \in 1..Len(combined_patterns[p]) :
      str_in(normalize_text(combined_patterns[p][k]), text_lower)

\* Faulty variant of cough_with_sputum: the phlegm / sputum part is left out.
cough_alone(text_lower) == str_in("cough", text_lower)

\* The condition of priority rule 1.
cough_with_sputum(text_lower) ==
  LET has(w) == str_in(w, text_lower)
  IN  has("cough")
      /\ (has("phlegm") \/ has("sputum") \/ has("blood in sputum")
          \/ has("blood_in_sputum") \/ has("rusty sputum") \/ has("rusty_sputum")
          \/ has("mucoid sputum") \/ has("mucoid_sputum"))

\* The outer condition of priority rule 2.
chest_pain_pair(text_lower) ==
  LET has(w) == str_in(w, text_lower)
  IN  (has("chest pain") \/ has("chest_pain"))
      /\ (has("breathlessness") \/ has("sweating"))

\* Faulty variant of strong_respiratory: a cough alone counts as respiratory.
respiratory_cough(text_lower) == str_in("cough", text_lower)

\* What the inner `if not (...)` of priority rule 2 negates.
strong_respiratory(text_lower) ==
  LET has(w) == str_in(w, text_lower)
  IN  has("cough") /\ (has("phlegm") \/ has("sputum"))

\* The chain of priority rules of assign_doctor, in the written order: the doctor
\* of the first rule whose condition holds, "" when the chain falls through to the
\* scorer.
priority_rule(text_lower) ==
  LET has(w) == str_in(w, text_lower)
  IN
  IF cough_with_sputum(text_lower)
    THEN "Pulmonologist"
  ELSE IF chest_pain_pair(text_lower) /\ ~ strong_respiratory(text_lower)
    THEN "Cardiologist"
  ELSE IF (has("yellowish skin") \/ has("yellowing of eyes") \/ has("yellowish_skin")
           \/ has("yellowing_of_eyes"))
     /\ (has("abdominal") \/ has("stomach") \/ has("vomiting") \/ has("nausea"))
    THEN "Gastroenterologist"
  ELSE IF has("cough") /\ has("breathlessness")
    THEN "Pulmonologist"
  ELSE IF has("headache")
     /\ (has("weakness of one body side") \/ has("weakness_of_one_body_side")
         \/ has("altered sensorium") \/ has("altered_sensorium"))
    THEN "Neurologist"
  ELSE IF (has("continuous sneezing") \/ has("continuous_sneezing"))
     /\ (has("watering from eyes") \/ has("watering_from_eyes"))
    THEN "ENT"
  ELSE IF (has("joint pain") \/ has("joint_pain"))
     /\ ((has("neck pain") \/ has("neck_pain")) \/ has("stiff"))
    THEN "Orthopedic"
  ELSE IF (has("burning micturition") \/ has("burning_micturition"))
     /\ (has("bladder") \/ has("urine"))
    THEN "Gastroenterologist"
  ELSE IF (has("irregular sugar") \/ has("irregular_sugar_level"))
     /\ (has("polyuria") \/ has("excessive hunger") \/ has("excessive_hunger"))
    THEN "General Physician"
  ELSE IF has("abnormal menstruation") \/ has("abnormal_menstruation")
    THEN "Gynecologist"
  ELSE IF (has("ulcers on tongue") \/ has("ulcers_on_tongue"))
     /\ (has("stomach") \/ has("abdominal") \/ has("acidity") \/ has("vomiting"))
    THEN "Gastroenterologist"
  ELSE IF (has("high fever") \/ has("high_fever"))
     /\ (has("skin rash") \/ has("skin_rash") \/ has("red spots")
         \/ has("red_spots_over_body") \/ has("blister"))
    THEN "Dermatologist"
  ELSE IF (has("veins") \/ has("varicose"))
     /\ (has("swollen") \/ has("legs") \/ has("protruding"))
    THEN "General Physician"
  ELSE IF (has("vomiting") \/ has("diarrhoea") \/ has("nausea"))
     /\ (has("fever") \/ has("headache"))
     /\ ~ (has("cough") \/ has("phlegm") \/ has("sputum"))
     /\ ~ (has("altered sensorium") \/ has("altered_sensorium") \/ has("spinning")
           \/ has("weakness of one body side") \/ has("weakness_of_one_body_side"))
    THEN "Gastroenterologist"
  ELSE ""

\* One iteration of the scoring loop of assign_doctor: the locals of the iteration.
score_doctor(rules, text_lower) ==
  LET combined_patterns == rules.combined_required
      has_combined ==
        combined_patterns # <<>> /\ check_combined_symptoms(text_lower, combined_patterns)
      skipped ==
        combined_patterns # <<>> /\ ~ has_combined /\ rules.name = "Cardiologist"
      matched ==
        SelectSeq(rules.keywords,
                  LAMBDA keyword : str_in(normalize_text(keyword), text_lower))
      score == (IF has_combined THEN 200 ELSE 0) + 10 * Len(matched)
      match_count == (IF has_combined THEN 3 ELSE 0) + Len(matched)
  IN  [ name            |-> rules.name,
        priority        |-> rules.priority,
        has_combined    |-> has_combined,
        keyword_matches |-> Len(matched),
        boost           |-> 0,
        match_count     |-> match_count,
        final_score     |-> score + priority_weight(rules.priority),
        recorded        |-> ~ skipped /\ match_count > 0 ]

\* The dict doctor_scores after the scoring loop over self.doctor_rules = rules, in
\* insertion order.
score_all_doctors_on(rules, text_lower) ==
  SelectSeq([i \in 1..Len(rules) |-> score_doctor(rules[i], text_lower)],
            LAMBDA r : r.recorded)

\* The dict doctor_scores after the scoring loop, in insertion order.
score_all_doctors(text_lower) ==
  LET rows == [i \in 1..Len(DoctorRules) |-> score_doctor(DoctorRules[i], text_lower)]
  IN  SelectSeq(rows, LAMBDA r : r.recorded)

\* The scorer part of assign_doctor on an object whose self.doctor_rules is rules.
scored_doctor_on(rules, text_lower) ==
  [scores |-> score_all_doctors_on(rules, text_lower),
   doctor |-> doctor_of(score_all_doctors_on(rules, text_lower))]

\* SymptomDoctorMapper.assign_doctor on an object whose self.doctor_rules is rules.
\* The priority rules are written into the method and read no table.
assign_doctor_on(rules, symptom_text) ==
  IF priority_rule(normalize_text(symptom_text)) # ""
    THEN [scores |-> <<>>, doctor |-> priority_rule(normalize_text(symptom_text))]
    ELSE scored_doctor_on(rules, normalize_text(symptom_text))

\* SymptomDoctorMapper.assign_doctor: the dict it built (empty when a priority rule
\* returned first) and the name it returns.
assign_doctor(symptom_text) ==
  LET text_lower == normalize_text(symptom_text)
      early == priority_rule(text_lower)
  IN  IF early # ""
        THEN [scores |-> <<>>, doctor |-> early]
        ELSE LET scores == score_all_doctors(text_lower)
             IN  [ scores |-> scores,
                   doctor |-> IF scores # <<>> THEN best_specialist(scores).name
                              ELSE FallbackDoctor ]

(***************************************************************************)
(* Inputs                                                                  *)
(***************************************************************************)

\* The most symptoms a generated comma-separated text lists.
MaxTokens == 3

\* Symptom tokens the generated comma-separated texts are built from.
Vocabulary ==
  << "chest_pain", "breathlessness", "sweating", "blood_in_sputum", "cough",
     "headache", "congestion", "muscle_wasting", "skin_rash", "joint_pain",
     "itching", "anxiety" >>

RECURSIVE increasing(_)
\* The strictly increasing index sequences over Vocabulary of length at most n.
increasing(n) ==
  IF n = 0 THEN {<<>>}
  ELSE LET shorter == increasing(n - 1)
           longer  == { p \in shorter \X (1..Len(Vocabulary)) :
                          p[1] = <<>> \/ p[1][Len(p[1])] < p[2] }
       IN  shorter \cup { Append(p[1], p[2]) : p \in longer }

RECURSIVE join_tokens(_, _)
\* ", ".join of the tokens Vocabulary[idx[i]] for i >= from.
join_tokens(idx, from) ==
  IF from > Len(idx) THEN ""
  ELSE IF from = Len(idx) THEN Vocabulary[idx[from]]
  ELSE Vocabulary[idx[from]] \o ", " \o join_tokens(idx, from + 1)

\* Texts listing up to MaxTokens distinct tokens of Vocabulary, in Vocabulary order.
GeneratedTexts == { join_tokens(idx, 1) : idx \in increasing(MaxTokens) }

\* Every keyword of the add_doctor_column.py table, written with underscores only
\* and written with spaces only.
KeywordForms ==
  LET keywords == all_symptoms(AddDoctorColumnRules, 1)
  IN  { str_replace_char(keywords[i], " ", "_") : i \in 1..Len(keywords) }
        \cup { str_replace_char(keywords[i], "_", " ") : i \in 1..Len(keywords) }

\* Hand-picked texts: empty and blank input, unknown words, stray commas, quoting,
\* upper case, sentences, and the documented examples.
SampleTexts ==
  { "", "   ", "\t\n", "zzz_not_a_symptom", ",", " , ", "chest_pain,", "a,,b",
    "chest pain", "Chest  Pain", "dischromic  patches",
    "chest_pain, breathlessness", "breathlessness, chest_pain",
    "CHEST_PAIN, Breathlessness", "\"chest_pain, sweating\"",
    "joint_pain, stiff_neck", "cough, mucoid_sputum", "cough, cough",
    "headache, cough", "itching, anxiety", "skin_rash, joint_pain",
    "patient reports chest pain and breathlessness",
    "I have a cough. Also phlegm, and a mild fever!",
    "chest pain, cough, phlegm, breathlessness",
    "continuous_sneezing, watering_from_eyes, skin_rash, skin_peeling",
    "headache, dizziness, seizures, excessive_hunger, polyuria",
    "burning_micturition, bladder_discomfort",
    "vomiting, headache, high_fever", "varicose veins and swollen legs",
    "weakness_of_one_body_side, altered_sensorium", "bladder, urine" }

Inputs == SampleTexts \cup GeneratedTexts \cup KeywordForms

Revisions == Recommenders \cup {"restructure_symptom_dataset"}

(***************************************************************************)
(* The state machine: one classification call on a freshly built object    *)
(***************************************************************************)

\* The driver is not running.
NoBatch == [pc |-> "off"]

\* __init__: the only attribute a constructed object has is its rule table.
construct(rev) ==
  IF rev \in Recommenders
    THEN [specialist_rules |-> specialist_rules(rev)]
    ELSE [doctor_rules |-> DoctorRules]

\* self.specialist_rules / self.doctor_rules of an object.
rules_of(obj) ==
  IF "specialist_rules" \in DOMAIN obj THEN obj.specialist_rules ELSE obj.doctor_rules

\* The callers that may share one object.
Callers == {"caller_1", "caller_2"}

\* The locals of a caller that is not inside a call.
NoCall == [pc |-> "idle", text |-> "", symptoms |-> <<>>, scores |-> <<>>, doctor |-> ""]

Init ==
  /\ impl \in Revisions
  /\ text \in Inputs
  /\ pc = "start"
  /\ symptoms = <<>>
  /\ specialist_scores = <<>>
  /\ result = ""
  /\ recommender = construct(impl)
  /\ calls = [w \in Callers |-> NoCall]
  /\ returned = <<>>
  /\ combos = <<>>
  /\ covered = FALSE
  /\ batch = NoBatch

\* recommender.recommend_doctor(symptom_text), as process_csv / restructure_csv
\* call it for one row.
RecommendDoctor ==
  /\ pc = "start"
  /\ impl \in Recommenders
  /\ LET syms == extract_symptoms(impl, text)
         m    == match_symptoms_to_specialist(impl, syms)
     IN  /\ symptoms' = syms
         /\ specialist_scores' = m.scores
         /\ result' = m.doctor
  /\ pc' = "done"
  /\ UNCHANGED <<impl, text, recommender, calls, returned, combos, covered, batch>>

\* mapper.assign_doctor(symptom_text), as restructure_csv of
\* restructure_symptom_dataset.py calls it for one row.
AssignDoctor ==
  /\ pc = "start"
  /\ impl = "restructure_symptom_dataset"
  /\ LET m == assign_doctor(text)
     IN  /\ symptoms' = mapper_extract_symptoms(text)
         /\ specialist_scores' = m.scores
         /\ result' = m.doctor
  /\ pc' = "done"
  /\ UNCHANGED <<impl, text, recommender, calls, returned, combos, covered, batch>>

Next == RecommendDoctor \/ AssignDoctor

Spec == Init /\ [][Next]_vars

(***************************************************************************)
(* Several calls on one object, by callers whose calls may interleave      *)
(***************************************************************************)

\* The most calls made on the shared object in one run.
MaxCalls == 3

\* The texts the callers classify.
SharedTexts ==
  { "chest_pain, breathlessness", "headache, cough",
    "patient reports chest pain and breathlessness" }

\* Faulty variant of self_after_call: the combinations are taken out of the table
\* while they are read (dict.pop in place of dict.get).
self_pops_combinations(obj, locals) ==
  IF "specialist_rules" \in DOMAIN obj
    THEN [specialist_rules |->
            [i \in 1..Len(obj.specialist_rules) |->
               [obj.specialist_rules[i] EXCEPT !.combined_symptoms = <<>>]]]
    ELSE [doctor_rules |->
            [i \in 1..Len(obj.doctor_rules) |->
               [obj.doctor_rules[i] EXCEPT !.combined_required = <<>>]]]

\* Faulty variant of self_after_call: the scores dict is kept as an attribute.
self_keeps_scores(obj, locals) ==
  [f \in DOMAIN obj \cup {"specialist_scores"} |->
     IF f = "specialist_scores" THEN locals.scores ELSE obj[f]]

\* The attributes of the object after a call: the methods read self.specialist_rules
\* (self.doctor_rules) with .items(), .get() and [], assign no attribute of self and
\* keep symptoms, scores and the result in locals.
self_after_call(obj, locals) == obj

InitShared ==
  /\ impl \in Revisions
  /\ text = ""
  /\ pc = "shared"
  /\ symptoms = <<>>
  /\ specialist_scores = <<>>
  /\ result = ""
  /\ recommender = construct(impl)
  /\ calls = [w \in Callers |-> NoCall]
  /\ returned = <<>>
  /\ combos = <<>>
  /\ covered = FALSE
  /\ batch = NoBatch

\* The calls in progress.
InFlight == {w \in Callers : calls[w].pc # "idle"}

\* A caller enters recommend_doctor(x) / assign_doctor(x) on the shared object.
Call(w, x) ==
  /\ pc = "shared"
  /\ calls[w].pc = "idle"
  /\ Len(returned) + Cardinality(InFlight) < MaxCalls
  /\ calls' = [calls EXCEPT ![w] = [NoCall EXCEPT !.pc = "extract", !.text = x]]
  /\ UNCHANGED <<impl, text, pc, symptoms, specialist_scores, result,
                 recommender, returned, combos, covered, batch>>

\* symptoms = self.extract_symptoms(symptom_text)
Extract(w) ==
  /\ calls[w].pc = "extract"
  /\ calls' = [calls EXCEPT
                 ![w].pc = "match",
                 ![w].symptoms =
                   IF impl \in Recommenders
                     THEN extract_symptoms_on(rules_of(recommender), calls[w].text)
                     ELSE mapper_extract_symptoms(calls[w].text)]
  /\ UNCHANGED <<impl, text, pc, symptoms, specialist_scores, result,
                 recommender, returned, combos, covered, batch>>

\* The locals of caller w once the scoring and the selection have run.
matched_locals(obj, rev, locals) ==
  IF rev \in Recommenders
    THEN [locals EXCEPT
            !.pc = "return",
            !.scores = match_symptoms_to_specialist_on(rules_of(obj), rev, locals.symptoms).scores,
            !.doctor = match_symptoms_to_specialist_on(rules_of(obj), rev, locals.symptoms).doctor]
    ELSE [locals EXCEPT
            !.pc = "return",
            !.scores = assign_doctor_on(rules_of(obj), locals.text).scores,
            !.doctor = assign_doctor_on(rules_of(obj), locals.text).doctor]

\* self.match_symptoms_to_specialist(symptoms), or the rules and the scorer of
\* assign_doctor.
Match(w) ==
  /\ calls[w].pc = "match"
  /\ calls' = [calls EXCEPT ![w] = matched_locals(recommender, impl, calls[w])]
  /\ recommender' = self_after_call(recommender, calls'[w])
  /\ UNCHANGED <<impl, text, pc, symptoms, specialist_scores, result, returned,
                 combos, covered, batch>>

\* The call returns its doctor; its locals are gone.
Return(w) ==
  /\ calls[w].pc = "return"
  /\ returned' = Append(returned, [text |-> calls[w].text, doctor |-> calls[w].doctor])
  /\ calls' = [calls EXCEPT ![w] = NoCall]
  /\ UNCHANGED <<impl, text, pc, symptoms, specialist_scores, result, recommender,
                 combos, covered, batch>>

NextShared ==
  \E w \in Callers :
    \/ \E x \in SharedTexts : Call(w, x)
    \/ Extract(w)
    \/ Match(w)
    \/ Return(w)

SpecShared == InitShared /\ [][NextShared]_vars

(***************************************************************************)
(* has_combined_symptoms called on its own                                 *)
(***************************************************************************)

\* The longest symptom list passed to has_combined_symptoms.
MaxSymptoms == 2

\* The symptoms the lists are built from: table spellings, another case and spacing,
\* a fragment of a keyword, and the empty piece a stray comma leaves.
SymptomChoices == {"chest_pain", "Chest  Pain", "breathlessness", "sweating", "chest", ""}

RECURSIVE lists_upto(_, _)
\* The sequences over items of length at most n.
lists_upto(items, n) ==
  IF n = 0 THEN {<<>>}
  ELSE lists_upto(items, n - 1)
         \cup {Append(l, x) : l \in lists_upto(items, n - 1), x \in items}

\* The combined_list arguments: no combination, one empty combination, the
\* Cardiologist and Pulmonologist lists of the add_doctor_column.py table, and a
\* list whose second combination is empty.
ComboLists ==
  { <<>>, << <<>> >>,
    AddDoctorColumnRules[1].combined_symptoms,
    AddDoctorColumnRules[3].combined_symptoms,
    << <<"cough", "phlegm">>, <<>> >> }

InitCombos ==
  /\ impl \in Recommenders
  /\ text = ""
  /\ pc = "check"
  /\ symptoms \in lists_upto(SymptomChoices, MaxSymptoms)
  /\ specialist_scores = <<>>
  /\ result = ""
  /\ recommender = construct(impl)
  /\ calls = [w \in Callers |-> NoCall]
  /\ returned = <<>>
  /\ combos \in ComboLists
  /\ covered = FALSE
  /\ batch = NoBatch

\* recommender.has_combined_symptoms(symptoms, combined_list)
HasCombinedSymptoms ==
  /\ pc = "check"
  /\ covered' = has_combined_symptoms(symptoms, combos)
  /\ pc' = "checked"
  /\ UNCHANGED <<impl, text, symptoms, specialist_scores, result,
                 recommender, calls, returned, combos, batch>>

NextCombos == HasCombinedSymptoms

SpecCombos == InitCombos /\ [][NextCombos]_vars

(***************************************************************************)
(* match_symptoms_to_specialist called on symptom lists                    *)
(***************************************************************************)

\* The symptoms the lists are built from: the keywords of a combination, one of them
\* also in another case and spacing, and a boosted keyword of another category.
MatchChoices == {"chest_pain", "Chest  Pain", "breathlessness", "blood_in_sputum"}

\* The non-empty symptom lists passed to match_symptoms_to_specialist.
SymptomLists == lists_upto(MatchChoices, MaxSymptoms) \ {<<>>}

\* The orders in which a list can be passed.
rearrangements(l) ==
  { [i \in 1..Len(l) |-> l[p[i]]] :
      p \in { q \in [1..Len(l) -> 1..Len(l)] :
                \A i, j \in 1..Len(l) : q[i] = q[j] => i = j } }

\* The lists of a second call that go with a first call on l: l in another order, and
\* l with one more symptom (a new one, a repeated one, or one in another spelling).
second_lists(l) == rearrangements(l) \cup {Append(l, x) : x \in MatchChoices}

\* The locals of a call whose symptoms are syms, before the scoring.
match_call(syms) == [NoCall EXCEPT !.pc = "match", !.symptoms = syms]

InitMatch ==
  /\ impl \in Recommenders
  /\ text = ""
  /\ pc = "lists"
  /\ symptoms = <<>>
  /\ specialist_scores = <<>>
  /\ result = ""
  /\ recommender = construct(impl)
  /\ \E l \in SymptomLists : \E m \in second_lists(l) :
       calls = [w \in Callers |-> IF w = "caller_1" THEN match_call(l) ELSE match_call(m)]
  /\ returned = <<>>
  /\ combos = <<>>
  /\ covered = FALSE
  /\ batch = NoBatch

\* recommender.match_symptoms_to_specialist(symptoms): the first call, then the second.
NextMatch ==
  \/ Match("caller_1")
  \/ calls["caller_1"].pc = "return" /\ Match("caller_2")

SpecMatch == InitMatch /\ [][NextMatch]_vars

(***************************************************************************)
(* The batch driver restructure_csv(input_file, output_file)               *)
(***************************************************************************)

\* The most data rows of an input file.
MaxRows == 2

\* What csv.DictReader puts in row['text'] for a line that is shorter than the header.
NoneText == "<None>"

\* The 'text' cells of the input rows.
BatchTexts == {"chest_pain, breathlessness", "headache, cough"}

\* The data rows an input file may hold: a text cell (or none), a label, and the
\* doctor cell of an earlier run.
InputRows ==
  [text : BatchTexts \cup {NoneText}, label : {"3", "7"}, doctor : {"ENT"}]

\* The header lines of the input files: the dataset's header, a header without
\* 'text', and the empty file (no header at all).
Headers == { <<"text", "label", "doctor">>, <<"label", "doctor">>, <<>> }

\* The content of a file the run has not opened for writing.
Untouched == [opened |-> FALSE]

\* The state at the call: the files as found and the locals as initialised.
batch_start(exists, fieldnames, rows, same_path, fault) ==
  [ pc           |-> "open_input",
    exists       |-> exists,        \* the input file exists
    fieldnames   |-> fieldnames,    \* reader.fieldnames
    input        |-> rows,          \* the rows the reader yields
    same_path    |-> same_path,     \* output_file names the input file
    fault        |-> fault,         \* where writing the output fails, if it does
    index        |-> 0,             \* input_row_count
    rows         |-> <<>>,          \* rows
    output       |-> Untouched,     \* the output file
    failed_at    |-> "",            \* the step whose exception was caught
    outcome      |-> "running" ]    \* the value returned

InitBatch ==
  /\ impl = "restructure_csv"
  /\ text = ""
  /\ pc = "batch"
  /\ symptoms = <<>>
  /\ specialist_scores = <<>>
  /\ result = ""
  /\ recommender = construct(impl)
  /\ calls = [w \in Callers |-> NoCall]
  /\ returned = <<>>
  /\ combos = <<>>
  /\ covered = FALSE
  /\ \E exists \in BOOLEAN, fieldnames \in Headers, same_path \in BOOLEAN,
        rows \in lists_upto(InputRows, MaxRows),
        fault \in {"none", "open", "write"} :
       /\ ~ exists => fieldnames = <<>> /\ rows = <<>>
       /\ fieldnames = <<>> => rows = <<>>
       /\ batch = batch_start(exists, fieldnames, rows, same_path, fault)

\* The except clauses: the exception is caught, a message printed, False returned.
failed(b, step) == [b EXCEPT !.pc = "done", !.failed_at = step, !.outcome = "False"]

\* with open(input_file, 'r', encoding='utf-8') as f
OpenInput ==
  /\ batch.pc = "open_input"
  /\ batch' = IF batch.exists THEN [batch EXCEPT !.pc = "header"]
              ELSE failed(batch, "open_input")
  /\ UNCHANGED <<impl, text, pc, symptoms, specialist_scores, result,
                 recommender, calls, returned, combos, covered>>

\* if 'text' not in reader.fieldnames: raise ValueError; for an empty file
\* fieldnames is None and the test itself raises TypeError.
CheckHeader ==
  /\ batch.pc = "header"
  /\ batch' = IF \E i \in 1..Len(batch.fieldnames) : batch.fieldnames[i] = "text"
                THEN [batch EXCEPT !.pc = "rows"]
                ELSE failed(batch, "header")
  /\ UNCHANGED <<impl, text, pc, symptoms, specialist_scores, result,
                 recommender, calls, returned, combos, covered>>

\* Faulty variant of new_row: the input row is copied and its doctor replaced.
new_row_copied(row, doctor) == [row EXCEPT !.doctor = doctor]

\* new_row = {'text': symptom_text, 'doctor': doctor}
new_row(row, doctor) == [text |-> row.text, doctor |-> doctor]

\* One iteration of `for row in reader`: recommend_doctor raises AttributeError for
\* a row without a text cell (None has no strip).
ReadRow ==
  /\ batch.pc = "rows"
  /\ batch.index < Len(batch.input)
  /\ batch' =
       IF batch.input[batch.index + 1].text = NoneText
         THEN failed([batch EXCEPT !.index = @ + 1], "row")
         ELSE [batch EXCEPT
                 !.index = @ + 1,
                 !.rows = Append(@, new_row(batch.input[batch.index + 1],
                                            recommend_doctor(impl,
                                              batch.input[batch.index + 1].text)))]
  /\ UNCHANGED <<impl, text, pc, symptoms, specialist_scores, result,
                 recommender, calls, returned, combos, covered>>

\* Faulty variant of reader_exhausted: the output is opened while rows remain.
reader_ignored(b) == TRUE

\* The for loop over the reader has ended.
reader_exhausted(b) == b.index = Len(b.input)

\* with open(output_file, 'w', ...): the file is truncated, or the open fails.
OpenOutput ==
  /\ batch.pc = "rows"
  /\ reader_exhausted(batch)
  /\ batch' = IF batch.fault = "open" THEN failed(batch, "open_output")
              ELSE [batch EXCEPT !.pc = "write",
                                 !.output = [opened |-> TRUE, fieldnames |-> <<>>,
                                            rows |-> <<>>]]
  /\ UNCHANGED <<impl, text, pc, symptoms, specialist_scores, result,
                 recommender, calls, returned, combos, covered>>

\* writer.writeheader(); writer.writerows(rows), or a failure after the header.
WriteRows ==
  /\ batch.pc = "write"
  /\ batch' =
       IF batch.fault = "write"
         THEN failed([batch EXCEPT !.output.fieldnames = <<"text", "doctor">>], "write")
         ELSE [batch EXCEPT !.pc = "report",
                            !.output = [opened |-> TRUE,
                                        fieldnames |-> <<"text", "doctor">>,
                                        rows |-> batch.rows]]
  /\ UNCHANGED <<impl, text, pc, symptoms, specialist_scores, result,
                 recommender, calls, returned, combos, covered>>

\* The summary is printed and True returned.
Report ==
  /\ batch.pc = "report"
  /\ batch' = [batch EXCEPT !.pc = "done", !.outcome = "True"]
  /\ UNCHANGED <<impl, text, pc, symptoms, specialist_scores, result,
                 recommender, calls, returned, combos, covered>>

NextBatch == OpenInput \/ CheckHeader \/ ReadRow \/ OpenOutput \/ WriteRows \/ Report

SpecBatch == InitBatch /\ [][NextBatch]_vars


(***************************************************************************)
(* Properties                                                              *)
(***************************************************************************)

Done == pc = "done"

IsRecommender == impl \in Recommenders

IsMapper == impl = "restructure_symptom_dataset"

Quotes == {"\"", "'"}

\* The index of the table entry of a specialist in the table of revision rev.
TableIndex(rev, name) ==
  IF rev \in Recommenders
    THEN CHOOSE i \in 1..Len(specialist_rules(rev)) : specialist_rules(rev)[i].name = name
    ELSE CHOOSE i \in 1..Len(DoctorRules) : DoctorRules[i].name = name

\* The entries of specialist_scores.
Candidates == {specialist_scores[i] : i \in 1..Len(specialist_scores)}

(* C1: every call returns, and the value returned is one of the configured    *)
(* specialist names of that revision's table (for assign_doctor a member of   *)
(* ALLOWED_DOCTORS), never another string. No string operation on the call    *)
(* path can raise: the call is one step from "start" to "done".               *)
C1_ResultIsConfiguredName ==
  /\ Done /\ IsRecommender => result \in SpecialistNames(impl)
  /\ Done /\ IsMapper => result \in ALLOWED_DOCTORS

\* The scorer of assign_doctor decided a text and returned one of the table's keys
\* other than the fallback.
C1_Witness ==
  /\ Done /\ IsMapper
  /\ specialist_scores # <<>>
  /\ result # "General Physician"
  /\ result \in ALLOWED_DOCTORS

(* C2: a specialist whose rule sets required_combined (Cardiologist) is       *)
(* returned only if one of its combinations is covered by the extracted       *)
(* symptoms, however many of its keywords match and even when there is no     *)
(* other candidate; in assign_doctor, Cardiologist is returned only if the    *)
(* text covers one of its combined_required patterns.                         *)
C2_RequiredCombinationExclusion ==
  /\ Done /\ IsRecommender =>
       \A i \in 1..Len(specialist_rules(impl)) :
         LET rules == specialist_rules(impl)[i]
         IN  rules.required_combined /\ result = rules.name
               => has_combined_symptoms(symptoms, rules.combined_symptoms)
  /\ Done /\ IsMapper /\ result = "Cardiologist" =>
       check_combined_symptoms(
         normalize_text(text),
         DoctorRules[TableIndex(impl, "Cardiologist")].combined_required)

\* Keywords of the combination-only specialist match, no combination is covered,
\* nobody else is a candidate, and the fallback is returned.
C2_Witness ==
  /\ Done /\ IsRecommender
  /\ symptoms # <<>>
  /\ specialist_scores = <<>>
  /\ result = "General Physician"
  /\ \E i \in 1..Len(specialist_rules(impl)) :
       LET rules == specialist_rules(impl)[i]
           row   == score_specialist(impl, rules, symptoms)
       IN  rules.required_combined /\ row.keyword_matches > 0 /\ ~ row.has_combined

(* C3: the empty text, a whitespace-only text and "zzz_not_a_symptom" are     *)
(* classified as "General Physician"; and whenever the extracted symptom list *)
(* is empty or the scoring loop records no entry, the result is               *)
(* "General Physician".                                                       *)
C3_FallbackTotality ==
  /\ Done /\ (strip(text, Whitespace) = "" \/ text = "zzz_not_a_symptom")
       => result = "General Physician"
  /\ Done /\ IsRecommender /\ (symptoms = <<>> \/ specialist_scores = <<>>)
       => result = "General Physician"
  /\ Done /\ IsMapper /\ priority_rule(normalize_text(text)) = ""
          /\ specialist_scores = <<>>
       => result = "General Physician"

\* An unknown word was classified: nothing extracted, the fallback returned.
C3_Witness ==
  /\ Done /\ IsRecommender
  /\ text = "zzz_not_a_symptom"
  /\ symptoms = <<>>
  /\ result = "General Physician"

(* C4: for a text that, once its quotes are stripped, has a comma and none   *)
(* of . ! ?, extract_symptoms returns exactly the non-empty trimmed pieces    *)
(* between the commas, in order, duplicates kept: no returned piece is the    *)
(* empty string.                                                              *)
C4_StructuredPiecesNonEmpty ==
  Done /\ is_comma_separated(strip(text, Quotes)) =>
    /\ symptoms = SelectSeq(split_symptoms(strip(text, Quotes)), LAMBDA piece : piece # "")
    /\ \A i \in 1..Len(symptoms) : symptoms[i] # ""

(* C5: for every keyword K of the add_doctor_column.py table, recommend_doctor *)
(* of K written with underscores only and recommend_doctor of K written with  *)
(* spaces only return the same specialist.                                    *)
C5_NormalizationEquivalence ==
  Done /\ impl = "add_doctor_column" =>
    LET keywords == all_symptoms(AddDoctorColumnRules, 1)
    IN  \A i \in 1..Len(keywords) :
          text = str_replace_char(keywords[i], " ", "_")
            => result = recommend_doctor(impl, str_replace_char(keywords[i], "_", " "))

(* C6: recommend_doctor("abnormal_menstruation") on the add_doctor_column.py  *)
(* table returns "Gynecologist".                                              *)
C6_AbnormalMenstruationExample ==
  Done /\ impl = "add_doctor_column" /\ text = "abnormal_menstruation"
    => result = "Gynecologist"

(* C7: on each of the three tables, "chest_pain, breathlessness" is           *)
(* classified as "Cardiologist", "joint_pain, stiff_neck" as "Orthopedic" and *)
(* "cough, mucoid_sputum" as "Pulmonologist".                                 *)
C7_CommaSeparatedExamples ==
  /\ Done /\ text = "chest_pain, breathlessness" => result = "Cardiologist"
  /\ Done /\ text = "joint_pain, stiff_neck" => result = "Orthopedic"
  /\ Done /\ text = "cough, mucoid_sputum" => result = "Pulmonologist"

\* The cardiac example went through the scoring loop of a DoctorRecommender, which
\* recorded the Cardiologist entry with its combination, and was returned as such.
C7_Witness ==
  /\ Done /\ IsRecommender
  /\ text = "chest_pain, breathlessness"
  /\ \E e \in Candidates : e.name = "Cardiologist" /\ e.has_combined
  /\ result = "Cardiologist"

\* The recorded entries whose (final_score, match_count) no other entry exceeds.
MaximalCandidates == {e \in Candidates : \A f \in Candidates : ~ key_less(e, f)}

(* C8: when several recorded candidates share the greatest                    *)
(* (final_score, match_count) pair, the one declared earliest in the rule     *)
(* table is returned.                                                         *)
C8_EarliestDeclaredWinsTie ==
  Done /\ specialist_scores # <<>> =>
    /\ \E e \in MaximalCandidates : e.name = result
    /\ \A e \in MaximalCandidates : TableIndex(impl, result) <= TableIndex(impl, e.name)

\* Two candidates tie on the greatest pair (Neurologist and Pulmonologist for
\* "headache, cough" on the add_doctor_column.py table) and the earlier one is
\* returned.
C8_Witness ==
  /\ Done /\ impl = "add_doctor_column"
  /\ \E e, f \in MaximalCandidates :
       /\ e.name = "Neurologist" /\ f.name = "Pulmonologist"
       /\ e.final_score = f.final_score /\ e.match_count = f.match_count
  /\ result = "Neurologist"

\* The table entry of a specialist lists no combination.
NoCombinations(rev, name) ==
  IF rev \in Recommenders
    THEN specialist_rules(rev)[TableIndex(rev, name)].combined_symptoms = <<>>
    ELSE DoctorRules[TableIndex(rev, name)].combined_required = <<>>

(* C9: of two candidates whose rules list no combinations and that matched    *)
(* the same number of individual keywords, the one with the higher priority   *)
(* number is not the one returned: the lower priority number is preferred.    *)
C9_PriorityTieBreak ==
  Done =>
    \A a, b \in Candidates :
      /\ NoCombinations(impl, a.name) /\ NoCombinations(impl, b.name)
      /\ a.keyword_matches = b.keyword_matches
      /\ a.priority < b.priority
      => result # b.name

\* Two combination-free candidates with equal keyword counts and different
\* priorities compete, and the one with the lowest priority number is returned.
C9_Witness ==
  /\ Done /\ IsRecommender
  /\ \E a, b \in Candidates :
       /\ NoCombinations(impl, a.name) /\ NoCombinations(impl, b.name)
       /\ a.keyword_matches = b.keyword_matches
       /\ a.priority < b.priority
       /\ result = a.name

(* C10 as stated: of two candidates with equal individual-keyword match       *)
(* counts, the one with the lower priority number never has the lower         *)
(* final_score. Stated for the calls whose extracted symptoms are all         *)
(* non-empty, so that a violation does not rest on the empty pieces of C4.    *)
C10_PriorityRankAsStated ==
  Done /\ (\A i \in 1..Len(symptoms) : symptoms[i] # "") =>
    \A a, b \in Candidates :
      a.keyword_matches = b.keyword_matches /\ a.priority < b.priority
        => a.final_score >= b.final_score

(* C10 amended: of two candidates with equal individual-keyword match counts, *)
(* the same combination bonus (both or neither has a covered combination) and *)
(* the same total keyword boost, the one with the lower priority number never *)
(* has the lower final_score.                                                 *)
C10_PriorityRankAmended ==
  Done =>
    \A a, b \in Candidates :
      /\ a.keyword_matches = b.keyword_matches
      /\ a.has_combined = b.has_combined
      /\ a.boost = b.boost
      /\ a.priority < b.priority
      => a.final_score >= b.final_score

\* Two candidates both with a covered combination, equal keyword counts, equal
\* boosts and different priorities were scored.
C10_Witness ==
  /\ Done
  /\ \A i \in 1..Len(symptoms) : symptoms[i] # ""
  /\ \E a, b \in Candidates :
       /\ a.has_combined /\ b.has_combined
       /\ a.keyword_matches = b.keyword_matches
       /\ a.boost = b.boost
       /\ a.priority < b.priority
       /\ a.final_score > b.final_score

RECURSIVE join_and(_, _)
\* " and ".join of the normalized forms of syms[i..]: the symptoms written as words.
join_and(syms, i) ==
  IF i > Len(syms) THEN ""
  ELSE IF i = Len(syms) THEN normalize_steps(syms[i])
  ELSE normalize_steps(syms[i]) \o " and " \o join_and(syms, i + 1)

\* A sentence without commas that names the same symptoms as the list syms.
free_text_of(syms) == "patient reports " \o join_and(syms, 1)

\* The symptoms of the list are, once normalized, exactly the keywords of one
\* configured combination of some specialist of the table.
SpellsOneCombination(rev, syms) ==
  \E i \in 1..Len(specialist_rules(rev)) :
    \E c \in 1..Len(specialist_rules(rev)[i].combined_symptoms) :
      LET combination == specialist_rules(rev)[i].combined_symptoms[c]
      IN  {normalize_text(syms[j]) : j \in 1..Len(syms)}
            = {normalize_text(combination[k]) : k \in 1..Len(combination)}

(* C11: a comma-separated text whose symptoms are the keywords of one         *)
(* configured combination and a sentence naming the same symptoms are         *)
(* classified alike by recommend_doctor; "chest_pain, breathlessness" and     *)
(* "patient reports chest pain and breathlessness" are both "Cardiologist".   *)
C11_StructuredFreeTextEquivalence ==
  /\ Done /\ IsRecommender
       /\ is_comma_separated(strip(text, Quotes))
       /\ SpellsOneCombination(impl, symptoms)
       => result = recommend_doctor(impl, free_text_of(symptoms))
  /\ Done /\ IsRecommender
       /\ text \in { "chest_pain, breathlessness",
                     "patient reports chest pain and breathlessness" }
       => result = "Cardiologist"

\* What a freshly constructed object of revision rev returns for the text x.
fresh_answer(rev, x) ==
  IF rev \in Recommenders THEN recommend_doctor(rev, x) ELSE assign_doctor(x).doctor

\* fresh_answer for every revision and every text the callers classify.
FreshAnswers == [rev \in Revisions |-> [x \in SharedTexts |-> fresh_answer(rev, x)]]

(* C12: on an object shared by several callers, every call returns for its    *)
(* text what a freshly constructed object returns for it, so any two calls    *)
(* with the same text return the same doctor, whatever was classified before  *)
(* and however the calls overlap.                                             *)
C12_Deterministic ==
  /\ \A i \in 1..Len(returned) :
       returned[i].doctor = FreshAnswers[impl][returned[i].text]
  /\ \A i, j \in 1..Len(returned) :
       returned[i].text = returned[j].text => returned[i].doctor = returned[j].doctor
  /\ \A w \in Callers :
       calls[w].pc = "return" => calls[w].doctor = FreshAnswers[impl][calls[w].text]

\* One call has returned; two further calls overlap and have both computed their
\* doctor, one for the text already classified, with the same doctor, and one for
\* another text.
C12_Witness ==
  /\ Len(returned) = 1
  /\ \A w \in Callers : calls[w].pc = "return"
  /\ \E v, w \in Callers :
       /\ calls[v].text = returned[1].text
       /\ calls[v].doctor = returned[1].doctor
       /\ calls[w].text # returned[1].text
       /\ calls[w].doctor # returned[1].doctor

(* C13: no call changes the object: in every state, during and after calls,   *)
(* the object's only attribute is the rule table as __init__ built it, and a  *)
(* caller that is not inside a call holds nothing of an earlier call.         *)
C13_TableNeverMutated ==
  /\ recommender = construct(impl)
  /\ \A w \in Callers : calls[w].pc = "idle" => calls[w] = NoCall

\* Two calls ran the scoring loop over the table and returned, a third has just
\* built a non-empty scores dict, and the table is as constructed.
C13_Witness ==
  /\ pc = "shared"
  /\ Len(returned) = 2
  /\ \E w \in Callers : calls[w].pc = "return" /\ calls[w].scores # <<>>
  /\ rules_of(recommender) = rules_of(construct(impl))

\* The characters of a string.
chars_of(s) == {CharAt(s, i) : i \in 1..Len(s)}

\* The canonical comparison form: no upper-case letter, no underscore, no leading or
\* trailing whitespace, no two adjacent whitespace characters.
Canonical(s) ==
  /\ chars_of(s) \cap (chars_of(UpperLetters) \cup {"_"}) = {}
  /\ s # "" => CharAt(s, 1) \notin Whitespace /\ CharAt(s, Len(s)) \notin Whitespace
  /\ \A i \in 1..(Len(s) - 1) :
       ~ (CharAt(s, i) \in Whitespace /\ CharAt(s, i + 1) \in Whitespace)

RECURSIVE str_upper(_)
\* The string with every lower-case letter in upper case.
str_upper(s) ==
  IF s = "" THEN ""
  ELSE (IF \E i \in 1..Len(LowerLetters) : CharAt(LowerLetters, i) = Head(s)
          THEN CharAt(UpperLetters,
                      CHOOSE i \in 1..Len(LowerLetters) : CharAt(LowerLetters, i) = Head(s))
          ELSE Head(s))
       \o str_upper(Tail(s))

RECURSIVE widen(_)
\* The string with every underscore and every space written twice.
widen(s) ==
  IF s = "" THEN ""
  ELSE (IF Head(s) \in {"_", " "} THEN Head(s) \o Head(s) ELSE Head(s)) \o widen(Tail(s))

\* Spellings of s that differ from it only in case, in underscore versus space, in
\* the length of the separator runs, or in surrounding whitespace.
Respellings(s) ==
  { str_upper(s), str_replace_char(s, "_", " "), str_replace_char(s, " ", "_"),
    widen(s), " " \o s \o "\t " }

(* C14: normalize_text returns a value for every string it is given, the      *)
(* empty string for the empty string; the value has no upper-case letter, no  *)
(* underscore, no leading or trailing whitespace and no two adjacent          *)
(* whitespace characters; normalizing it again changes nothing; and a         *)
(* respelling of the input in case, separators or run lengths normalizes to   *)
(* the same value.                                                            *)
C14_NormalizeCanonical ==
  /\ Done /\ IsMapper =>
       /\ Canonical(normalize_text(text))
       /\ normalize_text(normalize_text(text)) = normalize_text(text)
       /\ text = "" => normalize_text(text) = ""
       /\ \A v \in Respellings(text) : normalize_text(v) = normalize_text(text)
  /\ Done /\ IsRecommender =>
       \A i \in 1..Len(symptoms) :
         /\ Canonical(normalize_text(symptoms[i]))
         /\ normalize_text(normalize_text(symptoms[i])) = normalize_text(symptoms[i])

\* assign_doctor normalized a text with upper case and a run of two spaces into a
\* different, canonical string.
C14_Witness ==
  /\ Done /\ IsMapper
  /\ text = "Chest  Pain"
  /\ normalize_text(text) = "chest pain"
  /\ result # ""

(* C15: an empty entry of a combination list is never treated as a covered    *)
(* combination: has_combined_symptoms returns True only if a combination     *)
(* with at least one keyword is covered (a table with an empty combination    *)
(* is rejected when the object is constructed, so no call answers for it).    *)
C15_EmptyCombinationNeverSatisfied ==
  pc = "checked" /\ covered =>
    \E c \in 1..Len(combos) :
      /\ combos[c] # <<>>
      /\ has_combined_symptoms(symptoms, <<combos[c]>>)

\* The table entry of a recorded candidate.
RulesOf(e) == specialist_rules(impl)[TableIndex(impl, e.name)]

\* The keyword entries of a rule that contain, or are contained in, the normalized
\* form of at least one extracted symptom.
RelatedKeywords(rules) ==
  { i \in 1..Len(rules.symptoms) :
      \E j \in 1..Len(symptoms) :
        \/ str_in(normalize_text(rules.symptoms[i]), normalize_text(symptoms[j]))
        \/ str_in(normalize_text(symptoms[j]), normalize_text(rules.symptoms[i])) }

\* Some combination of the rule has every keyword in that relation with some
\* extracted symptom.
CombinationSatisfied(rules) ==
  \E c \in 1..Len(rules.combined_symptoms) :
    \A k \in 1..Len(rules.combined_symptoms[c]) :
      \E j \in 1..Len(symptoms) :
        \/ str_in(normalize_text(rules.combined_symptoms[c][k]), normalize_text(symptoms[j]))
        \/ str_in(normalize_text(symptoms[j]), normalize_text(rules.combined_symptoms[c][k]))

RECURSIVE BoostsOf(_, _)
\* The boosts of the related keyword entries from entry i on, each counted once.
BoostsOf(rules, i) ==
  IF i > Len(rules.symptoms) THEN 0
  ELSE (IF i \in RelatedKeywords(rules)
          THEN symptom_boost(impl, normalize_text(rules.symptoms[i])) ELSE 0)
       + BoostsOf(rules, i + 1)

(* C16: every entry match_symptoms_to_specialist records has                  *)
(* final_score = 100*c + 10*k + boosts + (1000 - 50*priority) and             *)
(* match_count = 2*c + k, where c is 1 if a combination of the specialist is  *)
(* satisfied and 0 otherwise, k is the number of the specialist's keyword     *)
(* entries related to at least one extracted symptom, and boosts adds the     *)
(* boost of each of those entries once, however many symptoms match an entry. *)
C16_ScoringFormula ==
  Done /\ IsRecommender =>
    \A e \in Candidates :
      LET rules == RulesOf(e)
          c == IF CombinationSatisfied(rules) THEN 1 ELSE 0
          k == Cardinality(RelatedKeywords(rules))
      IN  /\ e.final_score
               = 100 * c + 10 * k + BoostsOf(rules, 1) + (1000 - 50 * rules.priority)
          /\ e.match_count = 2 * c + k
          /\ e.match_count > 0

\* Two equal symptoms were extracted and a recorded specialist whose keyword entry
\* both of them match counted the entry once.
C16_Witness ==
  /\ Done /\ IsRecommender
  /\ \E i, j \in 1..Len(symptoms) : i # j /\ symptoms[i] = symptoms[j]
  /\ \E e \in Candidates : e.keyword_matches > 0 /\ e.match_count <= Len(symptoms) - 1

(* C17: when entries were recorded, match_symptoms_to_specialist returns the  *)
(* name of a recorded entry such that no recorded entry has a greater         *)
(* final_score and none with the same final_score has a greater match_count;  *)
(* and no recorded entry has match_count 0 or belongs to a specialist that    *)
(* requires a combination while none of its combinations is satisfied.        *)
C17_SelectionIsLexicographicMax ==
  Done /\ IsRecommender /\ specialist_scores # <<>> =>
    /\ \E e \in Candidates :
         /\ e.name = result
         /\ \A f \in Candidates :
              /\ f.final_score <= e.final_score
              /\ f.final_score = e.final_score => f.match_count <= e.match_count
    /\ \A e \in Candidates :
         /\ e.match_count > 0
         /\ ~ (RulesOf(e).required_combined /\ ~ CombinationSatisfied(RulesOf(e)))

\* Two recorded entries share the greatest final_score ("bladder, urine": Urologist
\* and Gastroenterologist, 820 each) and the one with more matches is returned.
C17_Witness ==
  /\ Done /\ IsRecommender
  /\ \E e, f \in Candidates :
       /\ e.name = result
       /\ e.final_score = f.final_score
       /\ e.match_count > f.match_count

(* C18: has_combined_symptoms(symptoms, combos) returns True exactly when     *)
(* some combination of combos has, for each of its keywords, a symptom whose  *)
(* normalized form is a substring of, or contains, the keyword's normalized   *)
(* form; it returns False for an empty combos list, and for an empty symptom  *)
(* list when every combination has a keyword.                                 *)
C18_CombinationChecker ==
  pc = "checked" =>
    /\ covered <=>
         \E c \in 1..Len(combos) :
           \A k \in 1..Len(combos[c]) :
             \E j \in 1..Len(symptoms) :
               \/ str_in(normalize_steps(symptoms[j]), normalize_steps(combos[c][k]))
               \/ str_in(normalize_steps(combos[c][k]), normalize_steps(symptoms[j]))
    /\ combos = <<>> => ~ covered
    /\ symptoms = <<>> /\ (\A c \in 1..Len(combos) : combos[c] # <<>>) => ~ covered

\* A combination was covered by a symptom that is only a fragment of one of its
\* keywords ("chest" for "chest_pain") together with a symptom that equals another.
C18_Witness ==
  /\ pc = "checked" /\ covered
  /\ symptoms = <<"chest", "breathlessness">>
  /\ \A c \in 1..Len(combos) : combos[c] # <<>>

(* C19: for a text that is not comma-separated (no comma, or one of . ! ?),   *)
(* extract_symptoms returns, in table order, exactly the keyword spellings    *)
(* whose normalized form is a substring of the normalized form of the text,   *)
(* so "chest_pain", "chest pain" and "Chest  Pain" all yield the chest-pain   *)
(* keywords.                                                                  *)
C19_FreeTextComparesNormalizedForms ==
  Done /\ IsRecommender /\ ~ is_comma_separated(strip(text, Quotes)) =>
    symptoms = SelectSeq(all_symptoms(specialist_rules(impl), 1),
                         LAMBDA keyword :
                           str_in(normalize_text(keyword), normalize_text(text)))

(* C20: of two recorded candidates A and B without a satisfied combination    *)
(* and without a boost, with priorities a < b and keyword match counts nA and *)
(* nB: if nB - nA >= 5*(b - a) then B is ahead of A (at exactly 5*(b - a) the *)
(* final_scores are equal and B has the larger match_count) and A is not      *)
(* returned; otherwise A is ahead of B and B is not returned.                 *)
C20_PriorityIsTieBreaker ==
  Done /\ IsRecommender =>
    \A A, B \in Candidates :
      /\ ~ A.has_combined /\ ~ B.has_combined
      /\ A.boost = 0 /\ B.boost = 0
      /\ A.priority < B.priority
      => IF B.keyword_matches - A.keyword_matches >= 5 * (B.priority - A.priority)
           THEN /\ result # A.name
                /\ B.final_score >= A.final_score
                /\ B.keyword_matches - A.keyword_matches = 5 * (B.priority - A.priority)
                     => B.final_score = A.final_score /\ B.match_count > A.match_count
           ELSE /\ result # B.name
                /\ A.final_score > B.final_score

\* The threshold case: B has exactly 5*(b - a) more keyword matches than A, and B is
\* returned ("bladder, urine": Gastroenterologist 4 / 2, Urologist 5 / 7).
C20_Witness ==
  /\ Done /\ IsRecommender
  /\ \E A, B \in Candidates :
       /\ ~ A.has_combined /\ ~ B.has_combined
       /\ A.boost = 0 /\ B.boost = 0
       /\ A.priority < B.priority
       /\ B.keyword_matches - A.keyword_matches = 5 * (B.priority - A.priority)
       /\ result = B.name

\* The normalized text of the call contains the word.
Mentions(word) == str_in(word, normalize_steps(text))

(* C21: in assign_doctor the priority rules decide in their written order: a  *)
(* text whose normalized form has 'cough' and 'phlegm' or 'sputum' is         *)
(* "Pulmonologist" even when it also has 'chest pain' with 'breathlessness'   *)
(* or 'sweating' (rule 1 before rule 2); a text with 'chest pain',            *)
(* 'breathlessness' or 'sweating', and 'cough' but neither 'phlegm' nor       *)
(* 'sputum' is "Cardiologist", not "Pulmonologist" (rule 2 before rule 4).    *)
C21_ShortCircuitPrecedence ==
  Done /\ IsMapper =>
    /\ Mentions("cough") /\ (Mentions("phlegm") \/ Mentions("sputum"))
         => result = "Pulmonologist"
    /\ /\ Mentions("chest pain")
       /\ Mentions("breathlessness") \/ Mentions("sweating")
       /\ Mentions("cough") /\ ~ Mentions("phlegm") /\ ~ Mentions("sputum")
       => result = "Cardiologist"

\* A text with the cardiac pair and the cough-and-breathlessness pair of rule 4 was
\* decided by rule 2.
C21_Witness ==
  /\ Done /\ IsMapper
  /\ Mentions("chest pain") /\ Mentions("breathlessness") /\ Mentions("cough")
  /\ ~ Mentions("phlegm") /\ ~ Mentions("sputum")
  /\ specialist_scores = <<>>
  /\ result = "Cardiologist"


\* The content at the input path: the output's content once the output has been
\* opened under the same path, the file as found otherwise.
AtInputPath ==
  IF batch.same_path /\ batch.output # Untouched
    THEN [fieldnames |-> batch.output.fieldnames, rows |-> batch.output.rows]
    ELSE [fieldnames |-> batch.fieldnames, rows |-> batch.input]

\* The steps of restructure_csv that read the input.
ReadingSteps == {"open_input", "header", "row"}

\* C22: when restructure_csv returns True the output file has the header text, doctor and
\* exactly one row per input row, in the input's order; every output row has exactly the
\* columns text and doctor, its text is the input row's text and its doctor is
\* recommend_doctor of that text, whatever the input row's other columns hold.
C22_RowPreservation ==
  (pc = "batch" /\ batch.outcome = "True") =>
    /\ batch.output.fieldnames = <<"text", "doctor">>
    /\ Len(batch.output.rows) = Len(batch.input)
    /\ \A i \in 1..Len(batch.input) :
         /\ DOMAIN batch.output.rows[i] = {"text", "doctor"}
         /\ batch.output.rows[i].text = batch.input[i].text
         /\ batch.output.rows[i].doctor = recommend_doctor(impl, batch.input[i].text)

\* C22 witness: a successful run over two rows with different texts, labels present.
C22_Witness ==
  /\ pc = "batch"
  /\ batch.outcome = "True"
  /\ Len(batch.input) = 2
  /\ batch.input[1].text # batch.input[2].text
  /\ batch.input[1].label # batch.input[2].label
  /\ batch.output.rows[1].doctor # batch.output.rows[2].doctor

\* C23: when a reading step of restructure_csv fails (input missing, no text column, an
\* exception while a row is classified) the function returns False, the output file has
\* not been opened and the content at the input path is the file as found; and whenever
\* the output has been opened, also under the input's path, every input row has been
\* read and classified.
C23_FailureLeavesOutputUntouched ==
  pc = "batch" =>
    /\ batch.failed_at \in ReadingSteps =>
         /\ batch.outcome = "False"
         /\ batch.output = Untouched
         /\ AtInputPath = [fieldnames |-> batch.fieldnames, rows |-> batch.input]
    /\ batch.output # Untouched =>
         /\ batch.index = Len(batch.input)
         /\ Len(batch.rows) = Len(batch.input)

\* C23 witness: input and output are the same path, and the second row fails after the
\* first one was classified.
C23_Witness ==
  /\ pc = "batch"
  /\ batch.same_path
  /\ batch.failed_at = "row"
  /\ batch.index = 2
  /\ Len(batch.rows) = 1
  /\ batch.outcome = "False"


\* The call of assign_doctor fell through the priority rules to the scorer.
ScorerDecided == priority_rule(normalize_text(text)) = ""

\* C24: assign_doctor returns "Cardiologist" exactly for the texts whose normalized form
\* has 'chest pain' and 'breathlessness' or 'sweating', and does not have 'cough' with
\* 'phlegm' or 'sputum'; a call decided by the scorer never returns "Cardiologist" and
\* never records it; and whenever rule 2 is reached with its outer condition true, its
\* inner guard is true.
C24_CardiologistOnlyByRuleTwo ==
  Done /\ IsMapper =>
    /\ result = "Cardiologist" <=>
         /\ Mentions("chest pain")
         /\ Mentions("breathlessness") \/ Mentions("sweating")
         /\ ~ (Mentions("cough") /\ (Mentions("phlegm") \/ Mentions("sputum")))
    /\ ScorerDecided =>
         /\ result # "Cardiologist"
         /\ \A i \in 1..Len(specialist_scores) : specialist_scores[i].name # "Cardiologist"
    /\ (~ cough_with_sputum(normalize_text(text)) /\ chest_pain_pair(normalize_text(text)))
         => ~ strong_respiratory(normalize_text(text))

\* C24 witness: a text with the Cardiologist keyword 'chest pain' but neither
\* 'breathlessness' nor 'sweating' reached the scorer, which recorded other doctors.
C24_Witness ==
  /\ Done /\ IsMapper
  /\ Mentions("chest pain")
  /\ ~ Mentions("breathlessness") /\ ~ Mentions("sweating")
  /\ ScorerDecided
  /\ specialist_scores # <<>>
  /\ result # "Cardiologist"


\* The set of normalized symptoms of a list.
normalized_set(l) == { normalize_steps(l[i]) : i \in 1..Len(l) }

\* Both calls on the two lists have built their scores.
BothMatched == pc = "lists" /\ \A w \in Callers : calls[w].pc = "return"

\* C25: two calls of match_symptoms_to_specialist on non-empty lists with the same set of
\* normalized symptoms (the list in another order, a symptom repeated or spelled in
\* another case and spacing) record the same categories with the same final_score and
\* match_count and return the same category.
C25_DependsOnSymptomSetOnly ==
  (BothMatched
   /\ normalized_set(calls["caller_1"].symptoms) = normalized_set(calls["caller_2"].symptoms))
    => /\ calls["caller_1"].scores = calls["caller_2"].scores
       /\ calls["caller_1"].doctor = calls["caller_2"].doctor

\* C25 witness: the two keywords of a combination in both orders, a combination found.
C25_Witness ==
  /\ BothMatched
  /\ Len(calls["caller_1"].symptoms) = 2
  /\ calls["caller_1"].symptoms[1] # calls["caller_1"].symptoms[2]
  /\ calls["caller_2"].symptoms =
       <<calls["caller_1"].symptoms[2], calls["caller_1"].symptoms[1]>>
  /\ \E i \in 1..Len(calls["caller_2"].scores) : calls["caller_2"].scores[i].has_combined
  /\ calls["caller_1"].doctor = calls["caller_2"].doctor

\* The second call's list is the first call's list with one more symptom.
OneMoreSymptom ==
  /\ BothMatched
  /\ Len(calls["caller_2"].symptoms) = Len(calls["caller_1"].symptoms) + 1
  /\ SubSeq(calls["caller_2"].symptoms, 1, Len(calls["caller_1"].symptoms))
       = calls["caller_1"].symptoms

\* C26: when a symptom is added to a non-empty list, every category recorded for the
\* list is recorded for the longer list with a final_score and a match_count that are
\* not lower, and a combination that was found is still found.
C26_EvidenceMonotone ==
  OneMoreSymptom =>
    \A i \in 1..Len(calls["caller_1"].scores) :
      \E j \in 1..Len(calls["caller_2"].scores) :
        /\ calls["caller_2"].scores[j].name = calls["caller_1"].scores[i].name
        /\ calls["caller_2"].scores[j].final_score >= calls["caller_1"].scores[i].final_score
        /\ calls["caller_2"].scores[j].match_count >= calls["caller_1"].scores[i].match_count
        /\ calls["caller_1"].scores[i].has_combined => calls["caller_2"].scores[j].has_combined

\* C26 witness: a list that satisfies a combination gets a symptom of another category;
\* the combination stays found, another category's score rises and the answer changes.
C26_Witness ==
  /\ OneMoreSymptom
  /\ \E i \in 1..Len(calls["caller_1"].scores) : calls["caller_1"].scores[i].has_combined
  /\ Len(calls["caller_2"].scores) > Len(calls["caller_1"].scores)
  /\ calls["caller_2"].doctor # calls["caller_1"].doctor

============================================================================
